---------------------------- MODULE Spec2Model ----------------------------
(***************************************************************************)
(* A model of the pca963x driver crate (src/src/lib.rs): the address       *)
(* resolver, the Config builder over the Mode1/Mode2 flag sets, and the    *)
(* PCA963X driver operations of the two device variants PCA9633 (four      *)
(* channels) and PCA9634 (eight channels), run against an I2C transport    *)
(* that stores the chip's registers and may fail any of its calls.         *)
(***************************************************************************)
EXTENDS Integers, Sequences, FiniteSets, TLC

(***************************************************************************)
(* u8 arithmetic                                                           *)
(***************************************************************************)
Byte == 0 .. 255

Pow2(n) == 2 ^ n

\* bit i of the byte x
Bit(x, i) == (x \div Pow2(i)) % 2

\* x & y, x | y, !x, x << n on u8
BitAnd(x, y) == Bit(x, 0) * Bit(y, 0) + 2 * Bit(x, 1) * Bit(y, 1)
                + 4 * Bit(x, 2) * Bit(y, 2) + 8 * Bit(x, 3) * Bit(y, 3)
                + 16 * Bit(x, 4) * Bit(y, 4) + 32 * Bit(x, 5) * Bit(y, 5)
                + 64 * Bit(x, 6) * Bit(y, 6) + 128 * Bit(x, 7) * Bit(y, 7)

BitNot(x) == 255 - x

BitOr(x, y) == x + y - BitAnd(x, y)

Shl(x, n) == (x * Pow2(n)) % 256

\* `b as u8` for a bool
AsU8(b) == IF b THEN 1 ELSE 0

(***************************************************************************)
(* Address                                                                 *)
(***************************************************************************)
Straps10 == [a0 : BOOLEAN, a1 : BOOLEAN]

Straps16 == [a0 : BOOLEAN, a1 : BOOLEAN, a2 : BOOLEAN, a3 : BOOLEAN,
             a4 : BOOLEAN, a5 : BOOLEAN, a6 : BOOLEAN]

\* enum Address: every descriptor is a record [kind, a0 .. a6, custom]
Address == {[kind |-> "_8Pin", a0 |-> FALSE, a1 |-> FALSE, a2 |-> FALSE,
             a3 |-> FALSE, a4 |-> FALSE, a5 |-> FALSE, a6 |-> FALSE, custom |-> 0]}
           \cup {[kind |-> "_10Pin", a0 |-> s.a0, a1 |-> s.a1, a2 |-> FALSE,
                  a3 |-> FALSE, a4 |-> FALSE, a5 |-> FALSE, a6 |-> FALSE,
                  custom |-> 0] : s \in Straps10}
           \cup {[kind |-> "_16Pin", a0 |-> s.a0, a1 |-> s.a1, a2 |-> s.a2,
                  a3 |-> s.a3, a4 |-> s.a4, a5 |-> s.a5, a6 |-> s.a6,
                  custom |-> 0] : s \in Straps16}
           \cup {[kind |-> "Custom", a0 |-> FALSE, a1 |-> FALSE, a2 |-> FALSE,
                  a3 |-> FALSE, a4 |-> FALSE, a5 |-> FALSE, a6 |-> FALSE,
                  custom |-> v] : v \in Byte}

\* address with the shift of a3 copied from a2
address_shift_slip(d) ==
    CASE d.kind = "_8Pin" -> 98
      [] d.kind = "_10Pin" ->
            BitOr(BitOr(96, AsU8(d.a0)), Shl(AsU8(d.a1), 1))
      [] d.kind = "_16Pin" ->
            BitOr(BitOr(BitOr(BitOr(BitOr(BitOr(AsU8(d.a0),
                Shl(AsU8(d.a1), 1)), Shl(AsU8(d.a2), 2)), Shl(AsU8(d.a3), 2)),
                Shl(AsU8(d.a4), 4)), Shl(AsU8(d.a5), 5)), Shl(AsU8(d.a6), 6))
      [] d.kind = "Custom" -> d.custom

\* Address::address
address(d) ==
    CASE d.kind = "_8Pin" -> 98
      [] d.kind = "_10Pin" ->
            BitOr(BitOr(96, AsU8(d.a0)), Shl(AsU8(d.a1), 1))
      [] d.kind = "_16Pin" ->
            BitOr(BitOr(BitOr(BitOr(BitOr(BitOr(AsU8(d.a0),
                Shl(AsU8(d.a1), 1)), Shl(AsU8(d.a2), 2)), Shl(AsU8(d.a3), 3)),
                Shl(AsU8(d.a4), 4)), Shl(AsU8(d.a5), 5)), Shl(AsU8(d.a6), 6))
      [] d.kind = "Custom" -> d.custom

(***************************************************************************)
(* Mode1, Mode2 and the Config builder                                     *)
(***************************************************************************)
Mode1 == [Sleep |-> 16, Sub1 |-> 8, Sub2 |-> 4, Sub3 |-> 2, AllCall |-> 1]

Mode2 == [DmBlink |-> 32, Invert |-> 16, Och |-> 8, OutDrv |-> 4,
          OutNe1 |-> 2, OutNe0 |-> 1]

\* bitflags: insert, remove, set
insert(bits, flag) == BitOr(bits, flag)

remove(bits, flag) == BitAnd(bits, BitNot(flag))

set(bits, flag, value) == IF value THEN insert(bits, flag) ELSE remove(bits, flag)

\* impl Default for Config
ConfigDefault == [mode1 |-> BitOr(Mode1.AllCall, Mode1.Sleep),
                  mode2 |-> BitOr(Mode2.OutDrv, Mode2.OutNe0)]

\* Config::new
ConfigNew == [mode1 |-> Mode1.AllCall,
              mode2 |-> BitOr(Mode2.OutDrv, Mode2.OutNe0)]

sub1(c, enable) == [c EXCEPT !.mode1 = set(c.mode1, Mode1.Sub1, enable)]

\* sub2 setting the flag of sub1
sub2_sets_sub1(c, enable) == [c EXCEPT !.mode1 = set(c.mode1, Mode1.Sub1, enable)]

sub2(c, enable) == [c EXCEPT !.mode1 = set(c.mode1, Mode1.Sub2, enable)]

sub3(c, enable) == [c EXCEPT !.mode1 = set(c.mode1, Mode1.Sub3, enable)]

all_call(c, enable) == [c EXCEPT !.mode1 = set(c.mode1, Mode1.AllCall, enable)]

sleep(c, enable) == [c EXCEPT !.mode1 = set(c.mode1, Mode1.Sleep, enable)]

blink(c, enable) == [c EXCEPT !.mode2 = set(c.mode2, Mode2.DmBlink, enable)]

invert(c, enable) == [c EXCEPT !.mode2 = set(c.mode2, Mode2.Invert, enable)]

Och == {"ChangeOnStop", "ChangeOnAck"}

och(c, change) ==
    CASE change = "ChangeOnStop" -> [c EXCEPT !.mode2 = set(c.mode2, Mode2.Och, FALSE)]
      [] change = "ChangeOnAck" -> [c EXCEPT !.mode2 = set(c.mode2, Mode2.Och, TRUE)]

OutDrv == {"OpenDrain", "TotemPole"}

out_drv(c, outdrv) ==
    CASE outdrv = "OpenDrain" -> [c EXCEPT !.mode2 = set(c.mode2, Mode2.OutDrv, FALSE)]
      [] outdrv = "TotemPole" -> [c EXCEPT !.mode2 = set(c.mode2, Mode2.OutDrv, TRUE)]

OutputDrive == [OutNe00 |-> 0, OutNe01 |-> 1, OutNe10 |-> 2]

\* outne whose OutNe10 branch names OutNe0 twice
outne_same_bit(c, out) ==
    CASE out = "OutNe00" ->
            [c EXCEPT !.mode2 = remove(c.mode2, BitOr(Mode2.OutNe1, Mode2.OutNe0))]
      [] out = "OutNe01" ->
            [c EXCEPT !.mode2 = remove(insert(c.mode2, Mode2.OutNe0), Mode2.OutNe1)]
      [] out = "OutNe10" ->
            [c EXCEPT !.mode2 = insert(remove(c.mode2, Mode2.OutNe0), Mode2.OutNe0)]

outne(c, out) ==
    CASE out = "OutNe00" ->
            [c EXCEPT !.mode2 = remove(c.mode2, BitOr(Mode2.OutNe1, Mode2.OutNe0))]
      [] out = "OutNe01" ->
            [c EXCEPT !.mode2 = remove(insert(c.mode2, Mode2.OutNe0), Mode2.OutNe1)]
      [] out = "OutNe10" ->
            [c EXCEPT !.mode2 = insert(remove(c.mode2, Mode2.OutNe0), Mode2.OutNe1)]


(***************************************************************************)
(* Channels, LedOut and the register maps of the two devices               *)
(***************************************************************************)
Variants == {"PCA9633", "PCA9634"}

\* enum Channels4 { _1 = 0, .. _4 = 3 }, enum Channels8 { _1 = 0, .. _8 = 7 }:
\* channel _k is the number k
Channels4 == 1 .. 4

Channels8 == 1 .. 8

Channels(v) == IF v = "PCA9633" THEN Channels4 ELSE Channels8

\* Channels::get_offs: `self as u8`, the discriminant of channel _k
get_offs(ch) == ch - 1

\* enum LedOut and `out as u8`
LedOut == {"FullyOff", "FullyOn", "Pwm", "PwmGroup"}

LedOutAsU8(out) ==
    CASE out = "FullyOff" -> 0
      [] out = "FullyOn" -> 1
      [] out = "Pwm" -> 2
      [] out = "PwmGroup" -> 3

AUTOINCR_ALL == 128

\* device!(PCA9633, Channels4 => ...)
PCA9633 == [MODE1 |-> 0, MODE2 |-> 1, PWM0 |-> 2, GRPPWM |-> 6, GRPFREQ |-> 7,
            LEDOUT1 |-> 8, SUBADR1 |-> 9, SUBADR2 |-> 10, SUBADR3 |-> 11,
            ALLCALLADR |-> 12]

\* the map of the PCA9634 with GRPPWM one register early, on the PWM register of _8
PCA9634_overlap == [MODE1 |-> 0, MODE2 |-> 1, PWM0 |-> 2, GRPPWM |-> 9, GRPFREQ |-> 11,
                    LEDOUT1 |-> 12, SUBADR1 |-> 14, SUBADR2 |-> 15, SUBADR3 |-> 16,
                    ALLCALLADR |-> 17]

\* device!(PCA9634, Channels8 => ...)
PCA9634 == [MODE1 |-> 0, MODE2 |-> 1, PWM0 |-> 2, GRPPWM |-> 10, GRPFREQ |-> 11,
            LEDOUT1 |-> 12, SUBADR1 |-> 14, SUBADR2 |-> 15, SUBADR3 |-> 16,
            ALLCALLADR |-> 17]

\* the associated constants of the PCA963X implementation of a device
Map(v) == IF v = "PCA9633" THEN PCA9633 ELSE PCA9634

(***************************************************************************)
(* The transport: an I2C bus with one chip that stores what is written     *)
(* to its registers.  A world w is the chip's registers and register       *)
(* pointer, the transport calls of the operation in progress and the       *)
(* Result of the last call.                                                *)
(***************************************************************************)
Errors == {"Nack", "ArbitrationLoss"}

\* Result<u8, E>, Result<(), E>: Ok(()) carries the value -1
Ok(val) == [ok |-> TRUE, val |-> val, err |-> "none"]

Err(e) == [ok |-> FALSE, val |-> -1, err |-> e]

\* the failure the transport injects: its at-th call of an operation fails with err
NoFailure == [at |-> 0, err |-> "none"]

Failures(k) == {NoFailure} \cup [at : 1 .. k, err : Errors]

\* no failure, or one in either call of a register read
ReadFailures == {NoFailure, [at |-> 1, err |-> "Nack"],
                 [at |-> 2, err |-> "ArbitrationLoss"]}

\* the registers of the chip
Registers(v) == 0 .. Map(v).ALLCALLADR

\* the register the k-th byte of a write lands in: the control byte holds the
\* register number in its low five bits, and the auto-increment flag in bit 7
\* makes consecutive data bytes land in consecutive registers
Target(bytes, k) ==
    IF Bit(bytes[1], 7) = 1 THEN (bytes[1] % 32) + (k - 2) ELSE bytes[1] % 32

Store(regs, bytes) ==
    [r \in DOMAIN regs |->
        IF \E k \in 2 .. Len(bytes) : Target(bytes, k) = r
        THEN bytes[CHOOSE k \in 2 .. Len(bytes) :
                      /\ Target(bytes, k) = r
                      /\ \A j \in 2 .. Len(bytes) : Target(bytes, j) = r => j <= k]
        ELSE regs[r]]

Pointer(regs, ptr, bytes) ==
    LET p == Target(bytes, Len(bytes) + 1)
    IN  IF p \in DOMAIN regs THEN p ELSE ptr

\* transport.write(address, bytes)
I2cWrite(w, addr, bytes, inj) ==
    LET logged == Append(w.calls, [kind |-> "write", addr |-> addr, bytes |-> bytes])
    IN  IF inj.at = Len(logged)
        THEN [w EXCEPT !.calls = logged, !.res = Err(inj.err)]
        ELSE [regs |-> Store(w.regs, bytes),
              ptr |-> Pointer(w.regs, w.ptr, bytes),
              calls |-> logged,
              res |-> Ok(-1)]

\* transport.read(address, buffer) with a buffer of one byte
I2cRead(w, addr, inj) ==
    LET logged == Append(w.calls, [kind |-> "read", addr |-> addr, bytes |-> <<>>])
    IN  IF inj.at = Len(logged)
        THEN [w EXCEPT !.calls = logged, !.res = Err(inj.err)]
        ELSE [w EXCEPT !.calls = logged, !.res = Ok(w.regs[w.ptr])]

(***************************************************************************)
(* The driver: trait PCA963X and its implementation by device!             *)
(***************************************************************************)
\* read without the `?` after the write of the register number
read_unchecked(w, a, register, inj) ==
    I2cRead(I2cWrite(w, a, <<register>>, inj), a, inj)

\* fn read(&mut self, register)
read(w, a, register, inj) ==
    LET w1 == I2cWrite(w, a, <<register>>, inj)
    IN  IF ~w1.res.ok THEN w1 ELSE I2cRead(w1, a, inj)

\* write addressing the bus with the register number
write_to_register(w, a, register, value, inj) ==
    I2cWrite(w, register, <<register, value>>, inj)

\* fn write(&mut self, register, value)
write(w, a, register, value, inj) == I2cWrite(w, a, <<register, value>>, inj)

\* write_config without the auto-increment flag
write_config_plain(w, v, a, c, inj) ==
    I2cWrite(w, a, <<Map(v).MODE1, c.mode1, c.mode2>>, inj)

\* fn write_config(&mut self, conf)
write_config(w, v, a, c, inj) ==
    I2cWrite(w, a, <<BitOr(AUTOINCR_ALL, Map(v).MODE1), c.mode1, c.mode2>>, inj)

\* fn read_duty(&mut self, ch)
read_duty(w, v, a, ch, inj) == read(w, a, Map(v).PWM0 + get_offs(ch), inj)

\* fn write_duty(&mut self, ch, value)
write_duty(w, v, a, ch, value, inj) ==
    write(w, a, Map(v).PWM0 + get_offs(ch), value, inj)

\* fn write_out(&mut self, ch, out)
write_out(w, v, a, ch, out, inj) ==
    LET offs == get_offs(ch)
        r == read(w, a, Map(v).LEDOUT1 + (offs \div 4), inj)
    IN  IF ~r.res.ok THEN r
        ELSE LET kept == BitAnd(r.res.val, Shl(3, (offs % 4) * 2))
                 ledout == BitOr(kept, Shl(LedOutAsU8(out), (offs % 4) * 2))
             IN  write(r, a, Map(v).LEDOUT1 + (offs \div 4), ledout, inj)

write_group_duty(w, v, a, value, inj) == write(w, a, Map(v).GRPPWM, value, inj)

write_group_freq(w, v, a, value, inj) == write(w, a, Map(v).GRPFREQ, value, inj)

write_sub_address1(w, v, a, addr, inj) == write(w, a, Map(v).SUBADR1, Shl(addr, 1), inj)

\* write_sub_address2 writing SUBADR1
write_sub_address2_slip(w, v, a, addr, inj) ==
    write(w, a, Map(v).SUBADR1, Shl(addr, 1), inj)

write_sub_address2(w, v, a, addr, inj) == write(w, a, Map(v).SUBADR2, Shl(addr, 1), inj)

write_sub_address3(w, v, a, addr, inj) == write(w, a, Map(v).SUBADR3, Shl(addr, 1), inj)

write_all_call_address1(w, v, a, addr, inj) ==
    write(w, a, Map(v).ALLCALLADR, Shl(addr, 1), inj)


(***************************************************************************)
(* State                                                                   *)
(***************************************************************************)
VARIABLES
    variant,      \* the device type: PCA9633 or PCA9634
    constructed,  \* whether the caller holds a device
    desc,         \* the Address descriptor the device was constructed from
    dev_address,  \* the device's field `address`
    regs,         \* the chip's registers
    ptr,          \* the chip's register pointer, set by the last write
    op,           \* the last driver operation and its arguments
    inj,          \* the failure the transport injected into it
    calls,        \* the transport calls it issued, in order
    result,       \* what it returned
    duty,         \* per channel, the value of the last successful write_duty, or -1
    budget,       \* how many more driver operations the run performs
    base,         \* the Config the caller started from
    conf,         \* the Config the caller is building
    last          \* per Config setter, the last argument passed to it, or "unset"

dev == <<variant, constructed, desc, dev_address, regs, ptr, op, inj, calls,
         result, duty, budget>>

vars == <<variant, constructed, desc, dev_address, regs, ptr, op, inj, calls,
          result, duty, budget, base, conf, last>>

\* how many driver operations a run performs on its device
MaxOps == 3

\* how many write_out calls a run performs on a chip with arbitrary LED-output registers
MaxOutOps == 2

Op(name, ch, value, out, c) ==
    [name |-> name, ch |-> ch, value |-> value, out |-> out,
     mode1 |-> c.mode1, mode2 |-> c.mode2]

NoConfig == [mode1 |-> -1, mode2 |-> -1]

Setters == {"sub1", "sub2", "sub3", "all_call", "sleep", "blink", "invert",
            "och", "out_drv", "outne"}

\* the world an operation starts in
World == [regs |-> regs, ptr |-> ptr, calls |-> <<>>, res |-> Ok(-1)]

\* an operation on the device ends in the world w
Done(o, i, w) ==
    /\ constructed
    /\ budget > 0
    /\ budget' = budget - 1
    /\ op' = o
    /\ inj' = i
    /\ \E x \in {w} :
          /\ regs' = x.regs
          /\ ptr' = x.ptr
          /\ calls' = x.calls
          /\ result' = x.res
    /\ UNCHANGED <<variant, constructed, desc, dev_address, base, conf, last>>

(***************************************************************************)
(* Construction                                                            *)
(***************************************************************************)
\* pub fn new(i2c, address)
New(d) ==
    /\ ~constructed
    /\ constructed' = TRUE
    /\ desc' = d
    /\ dev_address' = address(d)
    /\ op' = Op("new", 0, -1, "none", NoConfig)
    /\ inj' = NoFailure
    /\ calls' = <<>>
    /\ result' = Ok(-1)
    /\ UNCHANGED <<variant, regs, ptr, duty, budget, base, conf, last>>

\* pub fn new_config(i2c, address, conf)
NewConfig(d, c, i) ==
    /\ ~constructed
    /\ LET w == write_config(World, variant, address(d), c, i)
       IN  /\ constructed' = w.res.ok
           /\ desc' = d
           /\ dev_address' = IF w.res.ok THEN address(d) ELSE dev_address
           /\ regs' = w.regs
           /\ ptr' = w.ptr
           /\ calls' = w.calls
           /\ result' = w.res
    /\ op' = Op("new_config", 0, -1, "none", c)
    /\ inj' = i
    /\ UNCHANGED <<variant, duty, budget, base, conf, last>>

(***************************************************************************)
(* Driver operations                                                       *)
(***************************************************************************)
Read(register, i) ==
    /\ Done(Op("read", 0, register, "none", NoConfig), i,
            read(World, dev_address, register, i))
    /\ UNCHANGED duty

Write(register, value, i) ==
    /\ Done(Op("write", register, value, "none", NoConfig), i,
            write(World, dev_address, register, value, i))
    /\ UNCHANGED duty

WriteConfig(c, i) ==
    /\ Done(Op("write_config", 0, -1, "none", c), i,
            write_config(World, variant, dev_address, c, i))
    /\ UNCHANGED duty

ReadDuty(ch, i) ==
    /\ Done(Op("read_duty", ch, -1, "none", NoConfig), i,
            read_duty(World, variant, dev_address, ch, i))
    /\ UNCHANGED duty

WriteDuty(ch, value, i) ==
    LET w == write_duty(World, variant, dev_address, ch, value, i)
    IN  /\ Done(Op("write_duty", ch, value, "none", NoConfig), i, w)
        /\ duty' = IF w.res.ok THEN [duty EXCEPT ![ch] = value] ELSE duty

WriteOut(ch, out, i) ==
    /\ Done(Op("write_out", ch, -1, out, NoConfig), i,
            write_out(World, variant, dev_address, ch, out, i))
    /\ UNCHANGED duty

WriteGroupDuty(value, i) ==
    /\ Done(Op("write_group_duty", 0, value, "none", NoConfig), i,
            write_group_duty(World, variant, dev_address, value, i))
    /\ UNCHANGED duty

WriteGroupFreq(value, i) ==
    /\ Done(Op("write_group_freq", 0, value, "none", NoConfig), i,
            write_group_freq(World, variant, dev_address, value, i))
    /\ UNCHANGED duty

WriteSubAddress1(addr, i) ==
    /\ Done(Op("write_sub_address1", 0, addr, "none", NoConfig), i,
            write_sub_address1(World, variant, dev_address, addr, i))
    /\ UNCHANGED duty

WriteSubAddress2(addr, i) ==
    /\ Done(Op("write_sub_address2", 0, addr, "none", NoConfig), i,
            write_sub_address2(World, variant, dev_address, addr, i))
    /\ UNCHANGED duty

WriteSubAddress3(addr, i) ==
    /\ Done(Op("write_sub_address3", 0, addr, "none", NoConfig), i,
            write_sub_address3(World, variant, dev_address, addr, i))
    /\ UNCHANGED duty

WriteAllCallAddress1(addr, i) ==
    /\ Done(Op("write_all_call_address1", 0, addr, "none", NoConfig), i,
            write_all_call_address1(World, variant, dev_address, addr, i))
    /\ UNCHANGED duty

(***************************************************************************)
(* Config setters                                                          *)
(***************************************************************************)
Called(setter, arg, c) ==
    /\ conf' = c
    /\ last' = [last EXCEPT ![setter] = arg]
    /\ UNCHANGED base
    /\ UNCHANGED dev

Sub1(enable) == Called("sub1", ToString(enable), sub1(conf, enable))

Sub2(enable) == Called("sub2", ToString(enable), sub2(conf, enable))

Sub3(enable) == Called("sub3", ToString(enable), sub3(conf, enable))

AllCall(enable) == Called("all_call", ToString(enable), all_call(conf, enable))

Sleep(enable) == Called("sleep", ToString(enable), sleep(conf, enable))

Blink(enable) == Called("blink", ToString(enable), blink(conf, enable))

Invert(enable) == Called("invert", ToString(enable), invert(conf, enable))

SetOch(change) == Called("och", change, och(conf, change))

SetOutDrv(outdrv) == Called("out_drv", outdrv, out_drv(conf, outdrv))

Outne(out) == Called("outne", out, outne(conf, out))


(***************************************************************************)
(* Inputs                                                                  *)
(***************************************************************************)
\* how many setter calls build a Config handed to the device
MaxSetters == 1

Setter(S) ==
    S \cup {sub1(c, e) : c \in S, e \in BOOLEAN}
      \cup {sub2(c, e) : c \in S, e \in BOOLEAN}
      \cup {sub3(c, e) : c \in S, e \in BOOLEAN}
      \cup {all_call(c, e) : c \in S, e \in BOOLEAN}
      \cup {sleep(c, e) : c \in S, e \in BOOLEAN}
      \cup {blink(c, e) : c \in S, e \in BOOLEAN}
      \cup {invert(c, e) : c \in S, e \in BOOLEAN}
      \cup {och(c, x) : c \in S, x \in Och}
      \cup {out_drv(c, x) : c \in S, x \in OutDrv}
      \cup {outne(c, x) : c \in S, x \in DOMAIN OutputDrive}

RECURSIVE ConfigsWithin(_)
ConfigsWithin(n) ==
    IF n = 0 THEN {ConfigDefault, ConfigNew} ELSE Setter(ConfigsWithin(n - 1))

\* the Config of examples/simple.rs
ExampleConfig == blink(all_call(sleep(ConfigDefault, FALSE), FALSE), TRUE)

\* the Configs a caller builds with at most MaxSetters setter calls, and the example's
Configs == ConfigsWithin(MaxSetters) \cup {ExampleConfig}

Pin8 == [kind |-> "_8Pin", a0 |-> FALSE, a1 |-> FALSE, a2 |-> FALSE, a3 |-> FALSE,
         a4 |-> FALSE, a5 |-> FALSE, a6 |-> FALSE, custom |-> 0]

\* the 10 pin package with A0 high
Pin10 == [kind |-> "_10Pin", a0 |-> TRUE, a1 |-> FALSE, a2 |-> FALSE, a3 |-> FALSE,
          a4 |-> FALSE, a5 |-> FALSE, a6 |-> FALSE, custom |-> 0]

\* register values a caller writes: the values of examples/simple.rs
DutyValues == {64, 192}

GroupValues == {128}

\* sub and all-call addresses a caller writes, 7-bit and wider
SubAddresses == {1, 85, 127, 128, 255}

\* prior contents of an LED-output register: every field takes every code
LedoutBytes == {0, 85, 170, 255, 228}

(***************************************************************************)
(* Specifications                                                          *)
(***************************************************************************)
InitBuilder ==
    /\ base = ConfigDefault
    /\ conf = ConfigDefault
    /\ last = [s \in Setters |-> "unset"]

InitDevice ==
    /\ variant \in Variants
    /\ constructed = FALSE
    /\ desc = Pin8
    /\ dev_address = 0
    /\ ptr = 0
    /\ op = Op("none", 0, -1, "none", NoConfig)
    /\ inj = NoFailure
    /\ calls = <<>>
    /\ result = Ok(-1)
    /\ duty = [ch \in Channels8 |-> -1]

\* a chip whose registers are all zero, and a caller that holds no device yet
Init ==
    /\ InitDevice
    /\ budget = MaxOps
    /\ regs = [r \in Registers(variant) |-> 0]
    /\ InitBuilder

\* every driver operation, on either device
Next ==
    \/ New(Pin8)
    \/ \E ch \in Channels(variant), value \in DutyValues :
          WriteDuty(ch, value, NoFailure)
    \/ \E ch \in Channels(variant) :
          WriteDuty(ch, 255, [at |-> 1, err |-> "Nack"])
    \/ \E ch \in Channels(variant) : ReadDuty(ch, NoFailure)
    \/ \E ch \in Channels(variant), out \in {"PwmGroup"} :
          WriteOut(ch, out, NoFailure)
    \/ \E value \in GroupValues : WriteGroupDuty(value, NoFailure)
    \/ \E value \in GroupValues : WriteGroupFreq(value, NoFailure)
    \/ WriteSubAddress1(85, NoFailure)
    \/ WriteSubAddress2(85, NoFailure)
    \/ WriteSubAddress3(85, NoFailure)
    \/ WriteAllCallAddress1(85, NoFailure)
    \/ WriteConfig(ExampleConfig, NoFailure)

Spec == Init /\ [][Next]_vars

\* write_out on a chip whose LED-output registers hold anything
InitOut ==
    /\ InitDevice
    /\ budget = MaxOutOps
    /\ \E b1 \in LedoutBytes, b2 \in LedoutBytes :
          regs = [r \in Registers(variant) |->
                    IF r = Map(variant).LEDOUT1 THEN b1
                    ELSE IF r = Map(variant).LEDOUT1 + 1 /\ variant = "PCA9634" THEN b2
                    ELSE 0]
    /\ InitBuilder

NextOut ==
    \/ New(Pin8)
    \/ \E ch \in Channels(variant), out \in LedOut, i \in ReadFailures :
          WriteOut(ch, out, i)

SpecOut == InitOut /\ [][NextOut]_vars

\* construction and write_config
NextWriteConfig ==
    \/ New(Pin8)
    \/ \E c \in Configs, i \in Failures(1) : NewConfig(Pin10, c, i)
    \/ \E c \in Configs : WriteConfig(c, NoFailure)

SpecWriteConfig == Init /\ [][NextWriteConfig]_vars

\* sub and all-call addresses
NextSubAddress ==
    \/ New(Pin8)
    \/ \E c \in {ConfigDefault, sub1(ConfigDefault, TRUE)} : NewConfig(Pin8, c, NoFailure)
    \/ \E addr \in SubAddresses, i \in Failures(1) : WriteSubAddress1(addr, i)
    \/ \E addr \in SubAddresses, i \in Failures(1) : WriteSubAddress2(addr, i)
    \/ \E addr \in SubAddresses, i \in Failures(1) : WriteSubAddress3(addr, i)
    \/ \E addr \in SubAddresses, i \in Failures(1) : WriteAllCallAddress1(addr, i)

SpecSubAddress == Init /\ [][NextSubAddress]_vars

\* devices constructed from every Address
NextAddress ==
    \/ \E d \in Address : New(d)
    \/ \E d \in Address : NewConfig(d, ConfigDefault, NoFailure)
    \/ Read(Map(variant).MODE1, NoFailure)
    \/ Write(Map(variant).GRPPWM, 128, NoFailure)
    \/ WriteConfig(ConfigNew, NoFailure)
    \/ WriteOut(1, "FullyOn", NoFailure)

SpecAddress == Init /\ [][NextAddress]_vars

\* the Config builder
InitConfig ==
    /\ InitDevice
    /\ budget = 0
    /\ regs = [r \in Registers(variant) |-> 0]
    /\ variant = "PCA9633"
    /\ base \in {ConfigDefault, ConfigNew}
    /\ conf = base
    /\ last = [s \in Setters |-> "unset"]

NextConfig ==
    \/ \E enable \in BOOLEAN : Sub1(enable)
    \/ \E enable \in BOOLEAN : Sub2(enable)
    \/ \E enable \in BOOLEAN : Sub3(enable)
    \/ \E enable \in BOOLEAN : AllCall(enable)
    \/ \E enable \in BOOLEAN : Sleep(enable)
    \/ \E enable \in BOOLEAN : Blink(enable)
    \/ \E enable \in BOOLEAN : Invert(enable)
    \/ \E change \in Och : SetOch(change)
    \/ \E outdrv \in OutDrv : SetOutDrv(outdrv)
    \/ \E out \in DOMAIN OutputDrive : Outne(out)

SpecConfig == InitConfig /\ [][NextConfig]_vars


(***************************************************************************)
(* Properties                                                              *)
(***************************************************************************)
\* the 2-bit field k of an LED-output register
Field(b, k) == (b \div (4 ^ k)) % 4

\* the last step was the driver operation name
Stepped(name) == budget' = budget - 1 /\ op'.name = name

\* C1: after a successful write_out(ch, mode), the 2-bit field of ch, at bit
\* (offs % 4) * 2 of register LEDOUT1 + offs / 4, equals the code of mode
\* (FullyOff 0, FullyOn 1, Pwm 2, PwmGroup 3), whatever the register held.
C1_FieldIsMode ==
    (op.name = "write_out" /\ result.ok) =>
        Field(regs[Map(variant).LEDOUT1 + ((op.ch - 1) \div 4)], (op.ch - 1) % 4)
            = CASE op.out = "FullyOff" -> 0
                [] op.out = "FullyOn" -> 1
                [] op.out = "Pwm" -> 2
                [] op.out = "PwmGroup" -> 3

\* C2: write_out(ch, mode) changes only the 2-bit field of ch: every other
\* field of every register keeps its value.
C2_OnlyOwnField ==
    [][(Stepped("write_out") /\ result'.ok) =>
          \A r \in Registers(variant), k \in 0 .. 3 :
              (r # Map(variant).LEDOUT1 + ((op'.ch - 1) \div 4) \/ k # (op'.ch - 1) % 4)
                  => Field(regs'[r], k) = Field(regs[r], k)]_vars

\* C4: when the address write or the read of write_out's read phase fails,
\* write_out returns that error, the failed call is the last transport call
\* (no read after a failed address write, no write-back), and the chip's
\* registers are unchanged.
C4_ReadFailureStops ==
    [][(Stepped("write_out") /\ inj'.at \in {1, 2}) =>
          /\ result' = Err(inj'.err)
          /\ Len(calls') = inj'.at
          /\ calls'[1].kind = "write" /\ Len(calls'[1].bytes) = 1
          /\ inj'.at = 2 => calls'[2].kind = "read"
          /\ regs' = regs]_vars

C4_Witness ==
    /\ op.name = "write_out"
    /\ inj = [at |-> 2, err |-> "ArbitrationLoss"]
    /\ result = Err("ArbitrationLoss")
    /\ Len(calls) = 2
    /\ regs[Map(variant).LEDOUT1] = 228

\* C3: new issues no transport call; write_config and new_config issue exactly
\* one: a write of [0x80 | MODE1, mode1 bits, mode2 bits] to the resolved
\* address; a failed new_config returns the transport's error and no device.
C3_OneConfigWrite ==
    /\ op.name = "new" => calls = <<>>
    /\ op.name \in {"write_config", "new_config"} =>
          calls = << [kind |-> "write",
                      addr |-> IF desc.kind = "_8Pin" THEN 98 ELSE 97,
                      bytes |-> <<128, op.mode1, op.mode2>>] >>
    /\ op.name = "new_config" =>
          /\ constructed <=> result.ok
          /\ inj.at = 1 => result = Err(inj.err)
          /\ inj.at = 0 => result = Ok(-1)

C3_Witness ==
    /\ op.name = "new_config"
    /\ ~constructed
    /\ result = Err("Nack")
    /\ Len(calls) = 1
    /\ variant = "PCA9634"

\* the register each of the four address writers targets, per register map listing
SubAddressRegister(name) ==
    (IF variant = "PCA9633" THEN 9 ELSE 14)
    + CASE name = "write_sub_address1" -> 0
        [] name = "write_sub_address2" -> 1
        [] name = "write_sub_address3" -> 2
        [] name = "write_all_call_address1" -> 3

\* C10: write_sub_address1/2/3(addr) and write_all_call_address1(addr) issue
\* exactly one transport write [R, (addr * 2) mod 256], R being the SUBADR1,
\* SUBADR2, SUBADR3 or ALLCALLADR register of the device; bit 0 of the value
\* is 0, bits 7..1 are addr when addr is 7-bit, and the call succeeds when the
\* transport does, whatever the chip's MODE1 enable flags are.
C10_SubAddressWrite ==
    op.name \in {"write_sub_address1", "write_sub_address2", "write_sub_address3",
                 "write_all_call_address1"} =>
        /\ calls = << [kind |-> "write", addr |-> dev_address,
                       bytes |-> <<SubAddressRegister(op.name), (op.value * 2) % 256>>] >>
        /\ calls[1].bytes[2] % 2 = 0
        /\ op.value <= 127 => calls[1].bytes[2] \div 2 = op.value
        /\ inj = NoFailure => result = Ok(-1)

C10_Witness ==
    /\ op.name = "write_sub_address2"
    /\ op.value = 255
    /\ result.ok
    /\ regs[Map(variant).SUBADR2] = 254
    /\ Bit(regs[Map(variant).MODE1], 2) = 0

\* the registers of a device other than the PWM registers of its channels
DeviceRegisters(v) ==
    {Map(v).MODE1, Map(v).MODE2, Map(v).GRPPWM, Map(v).GRPFREQ, Map(v).SUBADR1,
     Map(v).SUBADR2, Map(v).SUBADR3, Map(v).ALLCALLADR}
    \cup {Map(v).LEDOUT1 + (get_offs(c) \div 4) : c \in Channels(v)}

\* C8: once write_duty(c, V) has succeeded, read_duty(c) returns V, also after
\* any other driver operations: the registers PWM0 + offset of the channels are
\* distinct from each other and from every other register of the device's map.
C8_DutyRoundTrip ==
    /\ \A c \in Channels(variant) :
          (constructed /\ duty[c] # -1) =>
              read_duty(World, variant, dev_address, c, NoFailure).res = Ok(duty[c])
    /\ (op.name = "read_duty" /\ result.ok /\ duty[op.ch] # -1) =>
          result.val = duty[op.ch]
    /\ \A c \in Channels(variant) :
          /\ Map(variant).PWM0 + get_offs(c) \notin DeviceRegisters(variant)
          /\ \A c2 \in Channels(variant) :
                c2 # c => Map(variant).PWM0 + get_offs(c2) # Map(variant).PWM0 + get_offs(c)

C8_Witness ==
    /\ op.name = "read_duty"
    /\ op.ch = Cardinality(Channels(variant))
    /\ result = Ok(192)
    /\ duty[op.ch] = 192
    /\ regs[Map(variant).GRPPWM] = 128
    /\ budget = 0

\* the address of a descriptor as arithmetic on its strap bits
Resolved(d) ==
    CASE d.kind = "_8Pin" -> 98
      [] d.kind = "_10Pin" -> 96 + AsU8(d.a0) + 2 * AsU8(d.a1)
      [] d.kind = "_16Pin" ->
            AsU8(d.a0) + 2 * AsU8(d.a1) + 4 * AsU8(d.a2) + 8 * AsU8(d.a3)
            + 16 * AsU8(d.a4) + 32 * AsU8(d.a5) + 64 * AsU8(d.a6)
      [] d.kind = "Custom" -> d.custom

\* C7: the address of a device is 0x62 for _8Pin, 0x60 + a0 + 2 * a1 for
\* _10Pin, the sum of a_i * 2^i over i = 0 .. 6 for _16Pin and v for Custom(v).
C7_AddressResolution == constructed => dev_address = Resolved(desc)

C7_Witness ==
    /\ constructed
    /\ desc.kind = "_16Pin"
    /\ desc.a3 /\ ~desc.a0 /\ ~desc.a1 /\ ~desc.a2 /\ ~desc.a4 /\ ~desc.a5 /\ ~desc.a6
    /\ dev_address = 8

\* C9 as claimed: the address of a device fits 7 bits for every descriptor,
\* and every transport call of every operation uses it.
C9_SevenBitAddress ==
    constructed =>
        /\ dev_address <= 127
        /\ \A k \in 1 .. Len(calls) : calls[k].addr = dev_address

\* C9 as amended: the address of a device fits 7 bits for every descriptor
\* other than a Custom(v) with v > 0x7F, whose address is v; every transport
\* call of every operation uses the device's address.
C9_SevenBitUnlessCustom ==
    constructed =>
        /\ (desc.kind # "Custom" \/ desc.custom <= 127) => dev_address <= 127
        /\ (desc.kind = "Custom" /\ desc.custom > 127) => dev_address = desc.custom
        /\ \A k \in 1 .. Len(calls) : calls[k].addr = dev_address

C9_Witness ==
    /\ constructed
    /\ desc.kind = "_16Pin"
    /\ dev_address = 127
    /\ op.name = "write_out"
    /\ Len(calls) = 3
    /\ calls[2].kind = "read"

\* the pair (OutNe1, OutNe0) of a Mode2 byte
PairOf(n) == n % 4

\* the bit a setter's flag has: the last value passed to it, or the default
Flag(setter, default) ==
    IF last[setter] = "unset" THEN default
    ELSE IF last[setter] \in {"TRUE", "ChangeOnAck", "TotemPole"} THEN 1 ELSE 0

\* C5: Config::default() is Mode1 0b0001_0001, Mode2 0b0000_0101, and after
\* any sequence of setter calls on it each setter's bit is the last value
\* passed to that setter and every other bit is the default's, whatever the
\* order of the calls.
C5_SettersCommute ==
    /\ ConfigDefault = [mode1 |-> 17, mode2 |-> 5]
    /\ base = ConfigDefault =>
          /\ conf.mode1 = 16 * Flag("sleep", 1) + 8 * Flag("sub1", 0) + 4 * Flag("sub2", 0)
                          + 2 * Flag("sub3", 0) + Flag("all_call", 1)
          /\ conf.mode2 - PairOf(conf.mode2) =
                32 * Flag("blink", 0) + 16 * Flag("invert", 0) + 8 * Flag("och", 0)
                + 4 * Flag("out_drv", 1)
          /\ last["outne"] = "unset" => PairOf(conf.mode2) = 1

C5_Witness ==
    /\ base = ConfigDefault
    /\ \A s \in Setters \ {"outne"} : last[s] # "unset"
    /\ last["sleep"] = "FALSE" /\ last["all_call"] = "FALSE" /\ last["blink"] = "TRUE"
    /\ last["och"] = "ChangeOnAck" /\ last["out_drv"] = "OpenDrain"
    /\ conf.mode1 = 0
    /\ conf.mode2 = 41 + 16 * Flag("invert", 0)

\* C6: outne(mode) makes the pair (OutNe1, OutNe0) the code of mode (00, 01, 10)
\* and changes no other bit of Mode2 or Mode1; applying it twice is applying it
\* once; and the pair is never 11 in a Config built from Config::default() or
\* Config::new() by setter calls.
C6_OutnePair ==
    /\ PairOf(conf.mode2) # 3
    /\ PairOf(conf.mode2) = IF last["outne"] = "unset" THEN 1
                            ELSE CASE last["outne"] = "OutNe00" -> 0
                                   [] last["outne"] = "OutNe01" -> 1
                                   [] last["outne"] = "OutNe10" -> 2
    /\ \A out \in DOMAIN OutputDrive :
          LET c == outne(conf, out)
          IN  /\ PairOf(c.mode2) = OutputDrive[out]
              /\ c.mode2 - PairOf(c.mode2) = conf.mode2 - PairOf(conf.mode2)
              /\ c.mode1 = conf.mode1
              /\ outne(c, out) = c

C6_Witness ==
    /\ last["outne"] = "OutNe10"
    /\ PairOf(conf.mode2) = 2
    /\ last["blink"] = "TRUE"
    /\ conf.mode2 >= 32
    /\ base = ConfigNew

=============================================================================
